---- MODULE Spec2Model ----
(***************************************************************************)
(* Real-time streaming sessions of faceforge:                              *)
(*   backend/realtime/stream_handler.py  (StreamSession, StreamManager,    *)
(*                                        websocket_stream_handler)        *)
(*   backend/api/routes/websocket.py     (stream_endpoint,                 *)
(*                                        list_stream_sessions)            *)
(*                                                                         *)
(* Every connection is one asyncio task running websocket_stream_handler.  *)
(* Tasks interleave at the awaits of the code: websocket.receive() (line   *)
(* 194), the await of the frame-processing coroutine inside process_frame  *)
(* (line 96), which sits between setting and clearing is_processing, and   *)
(* the sends (lines 210, 215, 226, 228).  What a handler does between two  *)
(* of them is one step.                                                    *)
(* set_target_face and get_stats contain no await and are single steps.    *)
(* A send either delivers the reply or raises WebSocketDisconnect when     *)
(* the peer has gone away.                                                 *)
(***************************************************************************)
EXTENDS Integers, Sequences, FiniteSets, TLC

\* ------------------------------------------------------------------ bounds
Conns == {1, 2}             \* connection slots (handler tasks)
MaxSessions == 2            \* connects (StreamSession objects) in one run
MaxMsgs == 2                \* client messages received in one run
MaxClock == 2               \* readings of time.time() that are distinguished
MaxSoloMsgs == 5            \* client messages in a run of one connection
MaxJobs == 1                \* job records created in one run
MaxTasks == 2               \* background tasks scheduled in one run
max_upload_size_mb == 1     \* Settings.max_upload_size_mb as set in the environment

\* ------------------------------------------------------- program constants
JpegQuality == 85           \* cv2.IMWRITE_JPEG_QUALITY of the reply frames
TicksPerSecond == 6         \* clock ticks in the 1.0 of the fps quotient

\* ------------------------------------------------------------ Optional[T]
None == <<>>
Some(x) == <<x>>
Val(o) == o[1]

\* ------------------------------------------------------------------ images
\* A decoded image (np.ndarray): whose face it shows, if any, and whether
\* the swapper pasted that face in.
Faces == {"alice", "bob"}
Image(f, s) == [face |-> f, swapped |-> s]
Scene == Image("none", FALSE)

\* Encoded image bytes: container format, quality setting, picture.
Encoded(fmt, q, img) == [fmt |-> fmt, q |-> q, img |-> Some(img)]
Garbage == [fmt |-> "bad", q |-> 0, img |-> None]
PngScene == Encoded("png", 100, Scene)
JpgAlice == Encoded("jpg", 95, Image("alice", FALSE))
Payloads == {Garbage, PngScene, JpgAlice}

\* cv2.imdecode(np.frombuffer(data), IMREAD_COLOR): None when the bytes are
\* no image (empty input raises instead; both callers treat it alike).
imdecode(data) == IF data.fmt \in {"jpg", "png"} THEN data.img ELSE None

\* cv2.imencode('.jpg', img, [IMWRITE_JPEG_QUALITY, 85]).tobytes()
imencode(img) == Encoded("jpg", JpegQuality, img)

\* ---------------------------------------------------------------- messages
\* A binary message is its first 4 bytes and what they stand before.
\* For a frame the whole message is the picture; `head` is then the start of
\* the picture's own header.
Bin(h, d) == [type |-> "websocket.receive", bytes |-> [head |-> h, data |-> d]]
Txt(t) == [type |-> "websocket.receive", text |-> t]
DisconnectMsg == [type |-> "websocket.disconnect"]
NoMsg == [type |-> "none"]

Texts == {"{oops", "[1]", "{}", "{\"command\":\"stats\"}",
          "{\"command\":\"ping\"}", "{\"command\":\"quit\"}"}

BinaryMsgs == {Bin("FACE", d) : d \in Payloads}
                \cup {Bin("img", d) : d \in Payloads}
TextMsgs == {Txt(t) : t \in Texts}
ClientMsgs == BinaryMsgs \cup TextMsgs

\* json.loads(text): a JSONDecodeError, or the parsed value.
json_loads(t) ==
  CASE t = "{oops" -> [err |-> TRUE, isdict |-> FALSE, command |-> None]
    [] t = "[1]" -> [err |-> FALSE, isdict |-> FALSE, command |-> None]
    [] t = "{}" -> [err |-> FALSE, isdict |-> TRUE, command |-> None]
    [] t = "{\"command\":\"stats\"}" ->
         [err |-> FALSE, isdict |-> TRUE, command |-> Some("stats")]
    [] t = "{\"command\":\"ping\"}" ->
         [err |-> FALSE, isdict |-> TRUE, command |-> Some("ping")]
    [] OTHER -> [err |-> FALSE, isdict |-> TRUE, command |-> Some("quit")]

\* frame_data[:4] == b"FACE"
HasFaceMarker(b) == b.head = "FACE"

\* ------------------------------------------------------------------- state
VARIABLES
  sessions,     \* StreamManager.sessions: session id -> StreamSession object
  heap,         \* the StreamSession objects, by identity (1..Len(heap))
  fa_loaded,    \* core.face_swap._face_analysis is not None
  sw_loaded,    \* core.face_swap._swapper is not None
  env,          \* what the host offers the lazy model initialisation,
                \* "unknown" until _init_models has looked
  clock,        \* the latest reading of time.time()
  pc,           \* where each handler task stands
  sid,          \* session_id argument of each handler
  message,      \* handler local `message`
  held,         \* process_frame locals `session` and `frame` across line 96
  result,       \* handler locals `success` / `result` / `stats`, and the
                \* reply about to be sent
  out,          \* what has been written on each websocket, in order
  ops,          \* how each message the handler received so far was served
  nrecv,        \* messages each handler has received
  nmsgs,        \* messages received in the run
  listing,      \* the response of list_stream_sessions, until the next step
  budget,       \* how many client messages the run goes up to
  jobs,         \* upload._jobs: job id -> JobInfo
  uploads,      \* the upload_video calls in progress, by job id: their locals
  tasks,        \* the background tasks scheduled by start_processing
  http          \* the answer to the HTTP request served in the last step

vars == <<sessions, heap, fa_loaded, sw_loaded, env, clock, pc, sid, message,
          held, result, out, ops, nrecv, nmsgs, listing, budget,
          jobs, uploads, tasks, http>>
jobvars == <<jobs, uploads, tasks, http>>
streamvars == <<sessions, heap, fa_loaded, sw_loaded, env, clock, pc, sid,
                message, held, result, out, ops, nrecv, nmsgs, listing, budget>>

ClientIds == {"s1"}
UuidNames == <<"u1", "u2", "u3">>
NoId == ""                  \* the handler is not running
Envs == {"ok", "no_insightface", "no_swapper_file"}

\* StreamSession(websocket=websocket): the dataclass defaults.  The
\* attribute _target_embedding does not exist until line 141 creates it.
StreamSession(ws) ==
  [websocket |-> ws, target_face |-> None, is_processing |-> FALSE,
   frames_processed |-> 0, last_frame_time |-> 0, fps |-> 0,
   target_embedding |-> None]

NoHeld == [session |-> 0, frame |-> None]
NoResult == [op |-> "none", value |-> None, reply |-> None]
Result(op, v, r) == [op |-> op, value |-> v, reply |-> r]

Init ==
  /\ sessions = [s \in {} |-> 0]
  /\ heap = <<>>
  /\ fa_loaded = FALSE
  /\ sw_loaded = FALSE
  /\ env = "unknown"
  /\ clock = 1
  /\ pc = [c \in Conns |-> "closed"]
  /\ sid = [c \in Conns |-> NoId]
  /\ message = [c \in Conns |-> NoMsg]
  /\ held = [c \in Conns |-> NoHeld]
  /\ result = [c \in Conns |-> NoResult]
  /\ out = [c \in Conns |-> <<>>]
  /\ ops = [c \in Conns |-> <<>>]
  /\ nrecv = [c \in Conns |-> 0]
  /\ nmsgs = 0
  /\ listing = None
  /\ budget = MaxMsgs
  /\ jobs = [j \in {} |-> 0]
  /\ uploads = [j \in {} |-> 0]
  /\ tasks = <<>>
  /\ http = None

\* ------------------------------------------------------------ the registry
\* self.sessions[session_id] = session
DictSet(d, k, v) == [x \in DOMAIN d \cup {k} |-> IF x = k THEN v ELSE d[x]]
\* del self.sessions[session_id]
DictDel(d, k) == [x \in DOMAIN d \ {k} |-> d[x]]

\* StreamManager.disconnect
disconnect_or_clear(d, s) == IF s \in DOMAIN d THEN DictDel(d, s) ELSE [x \in {} |-> 0]
disconnect(d, s) == IF s \in DOMAIN d THEN DictDel(d, s) ELSE d

\* Reference counting: a StreamSession that neither the registry nor a
\* running process_frame refers to any more is gone.
Freed == StreamSession(0)
InFlight(p, h) == {h[c].session : c \in {x \in Conns : p[x] = "process_frame"}}
Collect(h, reg, p, hl) ==
  [o \in DOMAIN h |->
     IF o \in {reg[s] : s \in DOMAIN reg} \cup InFlight(p, hl) THEN h[o] ELSE Freed]

\* uuid.uuid4(): an identifier that is not in use; the first free name
\* stands for all of them.
InUse == DOMAIN sessions \cup {sid[c] : c \in Conns}
Uuid4 == UuidNames[CHOOSE i \in 1..Len(UuidNames) :
                     /\ UuidNames[i] \notin InUse
                     /\ \A j \in 1..(i - 1) : UuidNames[j] \in InUse]

\* stream_endpoint: a missing or empty session_id is replaced by a uuid4
EndpointSessionId(q) == IF q = None THEN Uuid4 ELSE Val(q)

\* StreamManager.connect, line 39
StoreSession(d, s, o) == DictSet(d, s, o)

\* stream_endpoint, websocket_stream_handler up to the loop, and
\* StreamManager.connect: accept, create the session object, store it.
Connect(c, q) ==
  /\ pc[c] \in {"closed", "failed"}
  /\ Len(heap) < MaxSessions
  /\ LET s == EndpointSessionId(q) IN
       /\ sid' = [sid EXCEPT ![c] = s]
       /\ sessions' = StoreSession(sessions, s, Len(heap) + 1)
       /\ heap' = Collect(Append(heap, StreamSession(c)),
                          StoreSession(sessions, s, Len(heap) + 1), pc, held)
  /\ pc' = [pc EXCEPT ![c] = "receive"]
  /\ out' = [out EXCEPT ![c] = <<>>]
  /\ ops' = [ops EXCEPT ![c] = <<>>]
  /\ nrecv' = [nrecv EXCEPT ![c] = 0]
  /\ message' = [message EXCEPT ![c] = NoMsg]
  /\ UNCHANGED <<fa_loaded, sw_loaded, env, clock, held, result, nmsgs>>
  /\ listing' = None
  /\ UNCHANGED <<budget, jobvars>>

\* message = await websocket.receive() returns a data message; a handler
\* that this message ends stops counting.
Receive(c, m, stays) ==
  /\ pc[c] = "receive"
  /\ nmsgs < budget
  /\ message' = [message EXCEPT ![c] = m]
  /\ nrecv' = [nrecv EXCEPT ![c] = IF stays THEN @ + 1 ELSE 0]
  /\ nmsgs' = nmsgs + 1

\* The handler leaves the loop: the finally clause removes whatever session
\* is stored under its session id.  `how` is "closed" for a break or a
\* swallowed WebSocketDisconnect, "failed" for an exception that propagates.
LeaveNoFinally(c, how) ==
  /\ pc' = [pc EXCEPT ![c] = how]
  /\ sid' = [sid EXCEPT ![c] = NoId]
  /\ sessions' = sessions
  /\ heap' = Collect(heap, sessions, pc, held)
  /\ result' = [result EXCEPT ![c] = NoResult]
  /\ out' = [out EXCEPT ![c] = <<>>]
  /\ ops' = [ops EXCEPT ![c] = <<>>]
Leave(c, how) ==
  /\ pc' = [pc EXCEPT ![c] = how]
  /\ sid' = [sid EXCEPT ![c] = NoId]
  /\ sessions' = disconnect(sessions, sid[c])
  /\ heap' = Collect(heap, disconnect(sessions, sid[c]), pc, held)
  /\ result' = [result EXCEPT ![c] = NoResult]
  /\ out' = [out EXCEPT ![c] = <<>>]
  /\ ops' = [ops EXCEPT ![c] = <<>>]

\* message["type"] == "websocket.disconnect": break
ReceiveDisconnect(c) ==
  /\ pc[c] = "receive"
  /\ Leave(c, "closed")
  /\ message' = [message EXCEPT ![c] = NoMsg]
  /\ nrecv' = [nrecv EXCEPT ![c] = 0]
  /\ UNCHANGED <<fa_loaded, sw_loaded, env, clock, held, nmsgs>>
  /\ listing' = None
  /\ UNCHANGED <<budget, jobvars>>

\* The operation has returned: the handler holds its value and the reply
\* it is going to send (None: no send on this path).
Returned(c, op, v, r) ==
  /\ result' = [result EXCEPT ![c] = Result(op, v, r)]
  /\ ops' = [ops EXCEPT ![c] = Append(@, op)]
  /\ pc' = [pc EXCEPT ![c] = "respond"]

\* lines 210, 215, 226, 228 and the way back to line 194.  A send that
\* finds the peer gone raises WebSocketDisconnect.
Reply(c, r) == [seq |-> nrecv[c], reply |-> r]
RespondTwice(c, alive) ==
  /\ pc[c] = "respond"
  /\ IF result[c].reply = None \/ alive
       THEN /\ out' = [out EXCEPT ![c] =
                         IF result[c].reply = None THEN @
                         ELSE Append(Append(@, Reply(c, Val(result[c].reply))),
                                     Reply(c, Val(result[c].reply)))]
            /\ pc' = [pc EXCEPT ![c] = "receive"]
            /\ result' = [result EXCEPT ![c] = NoResult]
            /\ UNCHANGED <<sessions, heap, ops, nrecv, sid>>
       ELSE /\ Leave(c, "closed")
            /\ nrecv' = [nrecv EXCEPT ![c] = 0]
  /\ message' = [message EXCEPT ![c] = NoMsg]
  /\ UNCHANGED <<fa_loaded, sw_loaded, env, clock, held, nmsgs>>
  /\ listing' = None
  /\ UNCHANGED <<budget, jobvars>>
Respond(c, alive) ==
  /\ pc[c] = "respond"
  /\ IF result[c].reply = None \/ alive
       THEN /\ out' = [out EXCEPT ![c] =
                         IF result[c].reply = None THEN @
                         ELSE Append(@, Reply(c, Val(result[c].reply)))]
            /\ pc' = [pc EXCEPT ![c] = "receive"]
            /\ result' = [result EXCEPT ![c] = NoResult]
            /\ UNCHANGED <<sessions, heap, ops, nrecv, sid>>
       ELSE /\ Leave(c, "closed")
            /\ nrecv' = [nrecv EXCEPT ![c] = 0]
  /\ message' = [message EXCEPT ![c] = NoMsg]
  /\ UNCHANGED <<fa_loaded, sw_loaded, env, clock, held, nmsgs>>
  /\ listing' = None
  /\ UNCHANGED <<budget, jobvars>>

\* ---------------------------------------------------------- StreamManager
\* self.sessions.get(session_id)
Lookup(s) == IF s \in DOMAIN sessions THEN Some(sessions[s]) ELSE None

\* set_target_face, lines 56-65: the session's new target_face, or None
\* when the data is no image (imdecode returned None or raised).
DecodedTarget(face_data) == imdecode(face_data)

\* set_target_face: the heap after the call and the returned boolean.
set_target_face(s, face_data) ==
  IF s \notin DOMAIN sessions
    THEN [heap |-> heap, ok |-> FALSE]
    ELSE LET img == DecodedTarget(face_data) IN
         IF img = None
           THEN [heap |-> heap, ok |-> FALSE]
           ELSE [heap |-> [heap EXCEPT ![sessions[s]].target_face = img],
                 ok |-> TRUE]

\* A dict with string keys; {} is EmptyDict.
EmptyDict == [k \in {} |-> 0]

\* get_stats: {} for an id that is not registered (a StreamSession object
\* is always truthy); round(fps, 1) keeps the modelled fps.
get_stats_embedding(s) ==
  IF s \notin DOMAIN sessions
    THEN EmptyDict
    ELSE LET o == heap[sessions[s]] IN
         [frames_processed |-> o.frames_processed,
          fps |-> o.fps,
          has_target_face |-> o.target_embedding # None]
get_stats(s) ==
  IF s \notin DOMAIN sessions
    THEN EmptyDict
    ELSE LET o == heap[sessions[s]] IN
         [frames_processed |-> o.frames_processed,
          fps |-> o.fps,
          has_target_face |-> o.target_face # None]

\* list_stream_sessions over a registry: the response body.  The list of
\* entries has one entry per key, in the dict's order; the order is left
\* out and the list is the set of its entries.
list_stream_sessions_created(reg) ==
  [active_sessions |-> Len(heap),
   sessions |-> {[session_id |-> s, stats |-> get_stats(s)] : s \in DOMAIN reg}]
list_stream_sessions(reg) ==
  [active_sessions |-> Cardinality(DOMAIN reg),
   sessions |-> {[session_id |-> s, stats |-> get_stats(s)] : s \in DOMAIN reg}]

\* line 81: the frame is skipped while an earlier one is being processed
SkipFrameNever(session) == FALSE
SkipFrame(session) == session.is_processing

\* _face_analysis.get(img): the faces found in an image
DetectFaces(img) == IF img.face \in Faces THEN <<img.face>> ELSE <<>>

\* _swapper.get(frame, faces[0], embedding, paste_back=True)
SwapFace(frame, embedding) == Image(embedding, TRUE)

\* core.face_swap._init_models: which globals it has set when it returns
\* or raises (RuntimeError without insightface, FileNotFoundError without
\* the swapper model file).
InitModels(e) ==
  CASE e = "ok" -> [fa |-> TRUE, sw |-> TRUE, raised |-> FALSE]
    [] e = "no_swapper_file" -> [fa |-> TRUE, sw |-> FALSE, raised |-> TRUE]
    [] OTHER -> [fa |-> FALSE, sw |-> FALSE, raised |-> TRUE]

\* lines 124-135: _init_models is called
CallsInitModels(session, fa) == session.target_face # None /\ ~fa

\* The embedding line 154 uses: the cached attribute when the session has
\* one, else the first face of target_face (None when it shows no face).
TargetEmbedding(session) ==
  IF session.target_embedding # None
    THEN session.target_embedding
    ELSE LET faces == DetectFaces(Val(session.target_face)) IN
         IF faces # <<>> THEN Some(faces[1]) ELSE None

ProcessFrameInternalNoGuard(session, frame, fa, sw, e, raises) ==
  [frame |-> SwapFace(frame, "alice"), emb |-> session.target_embedding,
   fa |-> fa, sw |-> sw]
\* _process_frame_internal: the frame it returns, the session's cached
\* embedding and the module globals afterwards.  `fa`, `sw` are the values
\* the import at line 129 binds; _init_models changes the globals only.
\* `raises`: the model call raises.
ProcessFrameInternal(session, frame, fa, sw, e, raises) ==
  LET same == [frame |-> frame, emb |-> session.target_embedding,
               fa |-> fa, sw |-> sw]
      init == InitModels(e)
      emb == TargetEmbedding(session)
  IN
  IF session.target_face = None THEN same
  ELSE IF ~fa
    THEN \* line 135, then AttributeError on the None bound at line 129
         [same EXCEPT !.fa = init.fa, !.sw = init.sw]
  ELSE IF raises THEN same
  ELSE IF emb = None THEN same
  ELSE IF DetectFaces(frame) = <<>> THEN [same EXCEPT !.emb = emb]
  ELSE IF ~sw THEN [same EXCEPT !.emb = emb]
  ELSE [same EXCEPT !.emb = emb, !.frame = SwapFace(frame, Val(emb))]

\* lines 102-106: counters after a frame was encoded, and whether the fps
\* quotient raised ZeroDivisionError (now = last_frame_time > 0).
FpsOf(delta) == TicksPerSecond \div delta
UpdateStats(session, now) ==
  LET counted == [session EXCEPT !.frames_processed = @ + 1] IN
  IF session.last_frame_time > 0 /\ now = session.last_frame_time
    THEN [session |-> counted, raised |-> TRUE]
    ELSE [session |-> [counted EXCEPT
                         !.fps = IF session.last_frame_time > 0
                                   THEN FpsOf(now - session.last_frame_time)
                                   ELSE @,
                         !.last_frame_time = now],
          raised |-> FALSE]

\* ------------------------------------------------------------ the dispatcher
\* The reply the handler builds from what the operation returned.
FaceSetReplyTrue(success) == [type |-> "face_set", success |-> TRUE]
FaceSetReply(success) == [type |-> "face_set", success |-> success]
FrameReplyAsJson(buffer) == [type |-> "text", data |-> buffer]
FrameReply(buffer) == [type |-> "binary", data |-> buffer]
PongReply == [type |-> "pong"]
\* line 226: {"type": "stats", **stats}
StatsReply(stats) ==
  [k \in {"type"} \cup DOMAIN stats |-> IF k \in DOMAIN stats THEN stats[k] ELSE "stats"]

\* lines 194-209: FACE + image
DispatchFace(c, m) ==
  /\ "bytes" \in DOMAIN m
  /\ HasFaceMarker(m.bytes)
  /\ Receive(c, m, TRUE)
  /\ LET r == set_target_face(sid[c], m.bytes.data) IN
       /\ heap' = r.heap
       /\ Returned(c, "set_target_face", Some(r.ok), Some(FaceSetReply(r.ok)))
  /\ UNCHANGED <<sessions, fa_loaded, sw_loaded, env, clock, sid, held, out>>
  /\ listing' = None
  /\ UNCHANGED <<budget, jobvars>>

\* lines 194-213 with process_frame lines 77-96: up to the await of the
\* frame-processing coroutine, or to an early return of None.
DispatchFrame(c, m) ==
  /\ "bytes" \in DOMAIN m
  /\ ~HasFaceMarker(m.bytes)
  /\ Receive(c, m, TRUE)
  /\ LET found == Lookup(sid[c])
         frame == imdecode(m.bytes.data)
     IN
     IF found = None
       THEN /\ Returned(c, "no_session", None, None)
            /\ UNCHANGED <<heap, held>>
     ELSE IF SkipFrame(heap[Val(found)])
       THEN /\ Returned(c, "skipped", None, None)
            /\ UNCHANGED <<heap, held>>
     ELSE IF frame = None
       THEN \* flag set at line 84 and cleared by the finally clause
            /\ Returned(c, "undecodable", None, None)
            /\ UNCHANGED <<heap, held>>
     ELSE /\ heap' = [heap EXCEPT ![Val(found)].is_processing = TRUE]
          /\ held' = [held EXCEPT ![c] = [session |-> Val(found), frame |-> frame]]
          /\ pc' = [pc EXCEPT ![c] = "process_frame"]
          /\ UNCHANGED <<result, ops>>
  /\ UNCHANGED <<sessions, fa_loaded, sw_loaded, env, clock, sid, out>>
  /\ listing' = None
  /\ UNCHANGED <<budget, jobvars>>

\* process_frame lines 96-115 and the handler's line 214.  `now` is the
\* reading of time.time() at line 103.
FinishFrame(c, raises, now, e) ==
  /\ pc[c] = "process_frame"
  /\ LET o == held[c].session
         r == ProcessFrameInternal(heap[o], Val(held[c].frame),
                                   fa_loaded, sw_loaded, e, raises)
         buffer == imencode(r.frame)
         u == UpdateStats([heap[o] EXCEPT !.target_embedding = r.emb], now)
     IN
     /\ fa_loaded' = r.fa
     /\ sw_loaded' = r.sw
     /\ heap' = Collect([heap EXCEPT ![o] = [u.session EXCEPT !.is_processing = FALSE]],
                        sessions, [pc EXCEPT ![c] = "respond"], held)
     /\ IF u.raised
          THEN Returned(c, "error", None, None)
          ELSE Returned(c, "result", Some(buffer), Some(FrameReply(buffer)))
  /\ env' = IF CallsInitModels(heap[held[c].session], fa_loaded) THEN e ELSE env
  /\ clock' = now
  /\ held' = [held EXCEPT ![c] = NoHeld]
  /\ UNCHANGED <<sessions, sid, message, out, nrecv, nmsgs>>
  /\ listing' = None
  /\ UNCHANGED <<budget, jobvars>>

\* lines 220-231: what becomes of a text message.  A JSONDecodeError is
\* passed over; a parsed value that is no dict has no .get and raises
\* AttributeError, which nothing catches.
TextCommandNoCatch(data) ==
  IF data.err \/ ~data.isdict THEN "raise"
  ELSE IF data.command = Some("stats") THEN "stats"
  ELSE IF data.command = Some("ping") THEN "ping"
  ELSE "ignored"
TextCommand(data) ==
  IF data.err THEN "bad_json"
  ELSE IF ~data.isdict THEN "raise"
  ELSE IF data.command = Some("stats") THEN "stats"
  ELSE IF data.command = Some("ping") THEN "ping"
  ELSE "ignored"

\* lines 194-196 and 217-231: a text message
DispatchText(c, m) ==
  /\ "text" \in DOMAIN m
  /\ LET cmd == TextCommand(json_loads(m.text)) IN
     /\ Receive(c, m, cmd # "raise")
     /\ IF cmd = "raise"
          THEN Leave(c, "failed")
          ELSE /\ Returned(c, cmd, None,
                           CASE cmd = "stats" -> Some(StatsReply(get_stats(sid[c])))
                             [] cmd = "ping" -> Some(PongReply)
                             [] OTHER -> None)
               /\ UNCHANGED <<sessions, heap, out, sid>>
  /\ UNCHANGED <<fa_loaded, sw_loaded, env, clock, held>>
  /\ listing' = None
  /\ UNCHANGED <<budget, jobvars>>

\* GET /stream/sessions: list_stream_sessions has no await and runs between
\* two steps of the handlers; its response is with the caller until the
\* next step.
ListSessions ==
  /\ listing' = Some(list_stream_sessions(sessions))
  /\ UNCHANGED <<sessions, heap, fa_loaded, sw_loaded, env, clock, pc, sid,
                 message, held, result, out, ops, nrecv, nmsgs, budget, jobvars>>

\* the host as _init_models finds it: the same on every look
HostEnvs == IF env = "unknown" THEN Envs ELSE {env}

\* time.time() does not run backwards
Readings == {t \in {clock, clock + 1} : t <= MaxClock}

Next ==
  \/ \E c \in Conns, q \in {None} \cup {Some(s) : s \in ClientIds} : Connect(c, q)
  \/ \E c \in Conns : ReceiveDisconnect(c)
  \/ \E c \in Conns, m \in ClientMsgs : DispatchFace(c, m)
  \/ \E c \in Conns, m \in ClientMsgs : DispatchFrame(c, m)
  \/ \E c \in Conns, raises \in BOOLEAN, now \in Readings, e \in HostEnvs :
       FinishFrame(c, raises, now, e)
  \/ \E c \in Conns, m \in ClientMsgs : DispatchText(c, m)
  \/ \E c \in Conns, alive \in BOOLEAN : Respond(c, alive)

Spec == Init /\ [][Next]_vars

\* The streaming handlers together with the administrative query.
NextAdmin == Next \/ ListSessions
SpecAdmin == Init /\ [][NextAdmin]_vars

\* One client on one connection that sets reference faces and sends
\* frames, for a longer exchange.
SoloConn == 1
SoloMsgs == {Bin("FACE", JpgAlice), Bin("FACE", PngScene),
             Bin("img", JpgAlice), Bin("img", PngScene)}
InitSolo ==
  /\ sessions = [s \in {} |-> 0]
  /\ heap = <<>>
  /\ fa_loaded = FALSE
  /\ sw_loaded = FALSE
  /\ env = "unknown"
  /\ clock = 1
  /\ pc = [c \in Conns |-> "closed"]
  /\ sid = [c \in Conns |-> NoId]
  /\ message = [c \in Conns |-> NoMsg]
  /\ held = [c \in Conns |-> NoHeld]
  /\ result = [c \in Conns |-> NoResult]
  /\ out = [c \in Conns |-> <<>>]
  /\ ops = [c \in Conns |-> <<>>]
  /\ nrecv = [c \in Conns |-> 0]
  /\ nmsgs = 0
  /\ listing = None
  /\ budget = MaxSoloMsgs
  /\ jobs = [j \in {} |-> 0]
  /\ uploads = [j \in {} |-> 0]
  /\ tasks = <<>>
  /\ http = None
NextSolo ==
  \/ Connect(SoloConn, None)
  \/ ReceiveDisconnect(SoloConn)
  \/ \E m \in SoloMsgs : DispatchFace(SoloConn, m)
  \/ \E m \in SoloMsgs : DispatchFrame(SoloConn, m)
  \/ \E raises \in BOOLEAN, now \in Readings, e \in HostEnvs :
       FinishFrame(SoloConn, raises, now, e)
  \/ \E alive \in BOOLEAN : Respond(SoloConn, alive)
SpecSolo == InitSolo /\ [][NextSolo]_vars

\* ------------------------------------------------------------------ jobs
\* api/routes/upload.py and api/routes/process.py.  The handlers run on the
\* same event loop; upload_video is suspended at the awaits of the file
\* open, read and write, process_video_task at asyncio.sleep, and a
\* background task starts after the response of its request has been sent.
\* created_at and updated_at are left out.

\* uuid.uuid4() for a job: the next unused name
JobNames == <<"j1", "j2", "j3">>
\* job ids a client puts in a request: those that may exist and one that
\* never does
RequestJobIds == {JobNames[i] : i \in 1..Len(JobNames)} \cup {"nonexistent-job-id"}

\* JobInfo(job_id, status=UPLOADING, filename): the other fields default
\* to None
JobInfo(filename) ==
  [status |-> "uploading", filename |-> filename, file_size |-> None,
   error |-> None, progress |-> None]

\* Path(filename).suffix.lower()
Suffix(filename) ==
  CASE filename = "clip.MP4" -> ".mp4"
    [] filename = "notes.txt" -> ".txt"
    [] OTHER -> ""
allowed_video_extensions == {".mp4", ".avi", ".mov", ".mkv", ".webm"}

\* The names of the uploaded files: none, a refused and an allowed type.
Filenames == {"", "notes.txt", "clip.MP4"}

\* await file.read(1024 * 1024): the next chunk of 1 MB, b"" at the end of
\* the file, or an exception.
Reads == {"chunk", "eof", "raise"}

\* progress is kept in quarters: 0.0, 0.25, 0.50, 0.75, 1.0 are 0..4
ProgressSteps == <<1, 2, 3, 4>>

\* get_job: the record, or JobNotFoundError (status_code 404)
JobNotFound == [raised |-> "JobNotFoundError", status_code |-> 404]
get_job(js, j) == IF j \notin DOMAIN js THEN JobNotFound ELSE js[j]

\* update_job(job_id, **kwargs) on a job that exists: the keys that are
\* attributes of JobInfo are set.
update_job(js, j, kwargs) ==
  [js EXCEPT ![j] = [k \in DOMAIN js[j] |->
                       IF k \in DOMAIN kwargs THEN kwargs[k] ELSE js[j][k]]]

\* An HTTP answer: the handler, the job it is about, the status code.
Response(op, j, code) == [op |-> op, job |-> j, code |-> code]

\* upload_video lines 89-116: validation, the job record, the directory.
\* mkdir is outside the try block: an OSError leaves the handler as an
\* unhandled exception, which the server answers with 500.
UploadVideo(filename, mkdir_ok) ==
  /\ IF filename = "" \/ Suffix(filename) \notin allowed_video_extensions
       THEN /\ http' = Some(Response("upload_video", None, 400))
            /\ UNCHANGED <<jobs, uploads>>
       ELSE /\ Cardinality(DOMAIN jobs) < MaxJobs
            /\ LET j == JobNames[Cardinality(DOMAIN jobs) + 1] IN
               /\ jobs' = DictSet(jobs, j, JobInfo(filename))
               /\ IF mkdir_ok
                    THEN /\ uploads' = DictSet(uploads, j,
                                         [at |-> "open", total_size |-> 0])
                         /\ http' = None
                    ELSE /\ http' = Some(Response("upload_video", Some(j), 500))
                         /\ UNCHANGED uploads
  /\ UNCHANGED <<tasks, streamvars>>

\* lines 154-156: any other exception inside the try block
UploadFails(j) ==
  /\ jobs' = update_job(jobs, j, [status |-> "failed", error |-> Some("io error")])
  /\ uploads' = DictDel(uploads, j)
  /\ http' = Some(Response("upload_video", Some(j), 500))

\* line 123: aiofiles.open
UploadOpen(j, ok) ==
  /\ j \in DOMAIN uploads /\ uploads[j].at = "open"
  /\ IF ok
       THEN /\ uploads' = [uploads EXCEPT ![j].at = "read"]
            /\ http' = None
            /\ UNCHANGED jobs
       ELSE UploadFails(j)
  /\ UNCHANGED <<tasks, streamvars>>

\* lines 124-135 and 139-150: the next chunk; past the limit the job fails
\* with 413, at the end of the file the job is UPLOADED.
UploadRead(j, chunk) ==
  /\ j \in DOMAIN uploads /\ uploads[j].at = "read"
  /\ LET u == uploads[j]
         total_size == u.total_size + 1
     IN
     IF chunk = "raise" THEN UploadFails(j)
     ELSE IF chunk = "eof"
       THEN /\ jobs' = update_job(jobs, j, [status |-> "uploaded",
                                            file_size |-> Some(u.total_size)])
            /\ uploads' = DictDel(uploads, j)
            /\ http' = Some(Response("upload_video", Some(j), 200))
     ELSE IF total_size > max_upload_size_mb
       THEN /\ jobs' = update_job(jobs, j, [status |-> "failed",
                                            error |-> Some("File too large")])
            /\ uploads' = DictDel(uploads, j)
            /\ http' = Some(Response("upload_video", Some(j), 413))
     ELSE /\ uploads' = [uploads EXCEPT ![j] = [at |-> "write",
                                                total_size |-> total_size]]
          /\ http' = None
          /\ UNCHANGED jobs
  /\ UNCHANGED <<tasks, streamvars>>

\* line 137: out_file.write(chunk)
UploadWrite(j, ok) ==
  /\ j \in DOMAIN uploads /\ uploads[j].at = "write"
  /\ IF ok
       THEN /\ uploads' = [uploads EXCEPT ![j].at = "read"]
            /\ http' = None
            /\ UNCHANGED jobs
       ELSE UploadFails(j)
  /\ UNCHANGED <<tasks, streamvars>>

\* start_processing lines 98-108: whether the request is turned down, and
\* with which status code (0: it is accepted).
AcceptsAnyStatus(js, j) ==
  IF get_job(js, j) = JobNotFound THEN 404 ELSE 0
Refusal(js, j) ==
  IF get_job(js, j) = JobNotFound THEN JobNotFound.status_code
  ELSE IF get_job(js, j).status # "uploaded" THEN 400
  ELSE 0

\* start_processing: no await; the task is added and runs once the
\* response has gone out.
StartProcessing(j) ==
  /\ IF Refusal(jobs, j) # 0
       THEN /\ http' = Some(Response("start_processing", Some(j), Refusal(jobs, j)))
            /\ UNCHANGED tasks
       ELSE /\ Len(tasks) < MaxTasks
            /\ tasks' = Append(tasks, [job |-> j, at |-> "scheduled", step |-> 0])
            /\ http' = Some(Response("start_processing", Some(j), 200))
  /\ UNCHANGED <<jobs, uploads, streamvars>>

\* process_video_task line 56
TaskStart(t) ==
  /\ t \in DOMAIN tasks /\ tasks[t].at = "scheduled"
  /\ jobs' = update_job(jobs, tasks[t].job, [status |-> "processing",
                                             progress |-> Some(0)])
  /\ tasks' = [tasks EXCEPT ![t].at = "running"]
  /\ http' = None
  /\ UNCHANGED <<uploads, streamvars>>

\* lines 59-68: after each sleep the next progress value; after the last
\* one the job is COMPLETED before the task awaits again.
TaskStep(t) ==
  /\ t \in DOMAIN tasks /\ tasks[t].at = "running"
  /\ LET n == tasks[t].step + 1
         p == ProgressSteps[n]
     IN
     IF n < Len(ProgressSteps)
       THEN /\ jobs' = update_job(jobs, tasks[t].job, [progress |-> Some(p)])
            /\ tasks' = [tasks EXCEPT ![t].step = n]
       ELSE /\ jobs' = update_job(update_job(jobs, tasks[t].job, [progress |-> Some(p)]),
                                  tasks[t].job,
                                  [status |-> "completed", progress |-> Some(4)])
            /\ tasks' = [tasks EXCEPT ![t] = [job |-> @.job, at |-> "done", step |-> n]]
  /\ http' = None
  /\ UNCHANGED <<uploads, streamvars>>

NextJobs ==
  \/ \E filename \in Filenames, mkdir_ok \in BOOLEAN : UploadVideo(filename, mkdir_ok)
  \/ \E j \in DOMAIN uploads, ok \in BOOLEAN : UploadOpen(j, ok)
  \/ \E j \in DOMAIN uploads, chunk \in Reads : UploadRead(j, chunk)
  \/ \E j \in DOMAIN uploads, ok \in BOOLEAN : UploadWrite(j, ok)
  \/ \E j \in RequestJobIds : StartProcessing(j)
  \/ \E t \in DOMAIN tasks : TaskStart(t)
  \/ \E t \in DOMAIN tasks : TaskStep(t)
SpecJobs == Init /\ [][NextJobs]_vars

\* ------------------------------------------------------------------ claims
IsBinary(m) == "bytes" \in DOMAIN m
IsText(m) == "text" \in DOMAIN m
IsFaceMsg(m) == IsBinary(m) /\ m.bytes.head = "FACE"
IsFrameMsg(m) == IsBinary(m) /\ m.bytes.head # "FACE"
Registered(s) == s \in DOMAIN sessions

\* The handler of c takes the step that ends process_frame with a result.
Finishes(c) == pc[c] = "process_frame" /\ pc'[c] = "respond"
\* The handler of c receives a message and serves it.
Serves(c) == pc[c] = "receive" /\ pc'[c] # "receive" /\ nmsgs' = nmsgs + 1
\* The handler of c takes the step after the operation returned.
Responds(c) == pc[c] = "respond" /\ pc'[c] # "respond"

\* C1 (as claimed): on a session without a reference face, the frame
\* process_frame returns is byte for byte the frame that was sent.
C1_BytePassthrough ==
  [][\A c \in Conns :
       (Finishes(c) /\ heap[held[c].session].target_face = None
          /\ result'[c].op = "result")
       => Val(result'[c].value) = message[c].bytes.data]_vars

\* C1 (amended): on a session without a reference face, the frame
\* process_frame returns is a JPEG of quality 85 that shows the picture the
\* sent frame decodes to, unaltered; it is the frame the handler then writes.
C1_PicturePassthrough ==
  [][\A c \in Conns :
       /\ (Finishes(c) /\ heap[held[c].session].target_face = None
             /\ result'[c].op = "result")
          => /\ Val(result'[c].value).fmt = "jpg"
             /\ Val(result'[c].value).q = 85
             /\ Val(result'[c].value).img = message[c].bytes.data.img
             /\ result'[c].reply = Some([type |-> "binary",
                                         data |-> Val(result'[c].value)])
       /\ (Responds(c) /\ result[c].op = "result" /\ pc'[c] = "receive")
          => out'[c] = Append(out[c], [seq |-> nrecv[c],
                                      reply |-> Val(result[c].reply)])]_vars

\* C1 witness: a PNG frame came back re-encoded from a session that has no
\* reference face.
C1_Witness ==
  \E c \in Conns :
    /\ pc[c] = "receive" /\ Len(out[c]) = 1
    /\ out[c][1].reply = [type |-> "binary",
                          data |-> [fmt |-> "jpg", q |-> 85, img |-> PngScene.img]]
    /\ Registered(sid[c]) /\ heap[sessions[sid[c]]].target_face = None

C4_BadJsonIgnored ==
  [][\A c \in Conns :
       /\ (Serves(c) /\ IsText(message'[c]) /\ json_loads(message'[c].text).err)
          => pc'[c] = "respond" /\ result'[c].reply = None
       /\ (Responds(c) /\ result[c].op = "bad_json")
          => pc'[c] = "receive" /\ out'[c] = out[c] /\ sessions' = sessions
       /\ (Responds(c) /\ message[c] = Txt("{\"command\":\"ping\"}")
             /\ pc'[c] = "receive")
          => out'[c] = Append(out[c], [seq |-> nrecv[c],
                                      reply |-> [type |-> "pong"]])]_vars

\* C4 witness: bad JSON first, ping second, and the only reply is the pong.
C4_Witness ==
  \E c \in Conns :
    /\ pc[c] = "receive" /\ ops[c] = <<"bad_json", "ping">>
    /\ out[c] = <<[seq |-> 2, reply |-> [type |-> "pong"]]>>

\* C5 (as claimed): no handler is ever ended by the content of a message.
C5_NoMessageEndsSession == \A c \in Conns : pc[c] # "failed"

\* C6 (as claimed): FACE data that does not decode to a picture with a face
\* in it is answered success false and changes no session.
C6_NoFaceRejected ==
  [][\A c \in Conns :
       (Serves(c) /\ IsFaceMsg(message'[c])
          /\ (message'[c].bytes.data.img = None
                \/ Val(message'[c].bytes.data.img).face \notin Faces))
       => result'[c].value = Some(FALSE) /\ heap' = heap]_vars

\* C7: a binary message that starts with FACE goes to set_target_face with
\* the bytes behind the marker, whatever they are; the call returns a
\* boolean and raises nothing, and the handler sends one face_set reply with
\* that boolean and no frame.  (A send to a peer that has gone ends the
\* handler instead of writing.)
C7_FaceRouted ==
  [][\A c \in Conns :
       /\ (Serves(c) /\ IsFaceMsg(message'[c]))
          => /\ pc'[c] = "respond"
             /\ result'[c].op = "set_target_face"
             /\ result'[c].value
                  = Some(Registered(sid[c])
                           /\ message'[c].bytes.data.fmt \in {"jpg", "png"})
             /\ result'[c].reply
                  = Some([type |-> "face_set", success |-> Val(result'[c].value)])
             /\ Val(result'[c].value)
                  => heap'[sessions[sid[c]]].target_face = message'[c].bytes.data.img
       /\ (Responds(c) /\ IsFaceMsg(message[c]))
          => \/ /\ pc'[c] = "receive"
                /\ out'[c] = Append(out[c],
                     [seq |-> nrecv[c],
                      reply |-> [type |-> "face_set",
                                 success |-> Val(result[c].value)]])
             \/ pc'[c] = "closed"]_vars

\* C7 witness: FACE with bytes that are no picture and FACE with a picture
\* have each been answered, false and true.
C7_Witness ==
  \E c \in Conns :
    /\ pc[c] = "receive"
    /\ out[c] = <<[seq |-> 1, reply |-> [type |-> "face_set", success |-> FALSE]],
                  [seq |-> 2, reply |-> [type |-> "face_set", success |-> TRUE]]>>

\* C8: a binary message without the marker goes to process_frame; a result
\* is written back as one binary message that carries it, and a frame that
\* was skipped because the session was busy, or that did not decode, leaves
\* nothing written.
C8_FrameRouted ==
  [][\A c \in Conns :
       /\ (Serves(c) /\ IsFrameMsg(message'[c]))
          => \/ pc'[c] = "process_frame" /\ out' = out
             \/ /\ pc'[c] = "respond"
                /\ result'[c].op \in {"no_session", "skipped", "undecodable"}
                /\ result'[c].value = None /\ result'[c].reply = None
       /\ (Serves(c) /\ IsFrameMsg(message'[c])
             /\ (message'[c].bytes.data.fmt = "bad"
                   \/ (Registered(sid[c]) /\ heap[sessions[sid[c]]].is_processing)))
          => pc'[c] = "respond" /\ result'[c].reply = None
       /\ Finishes(c)
          => result'[c].reply
               = IF result'[c].value = None THEN None
                 ELSE Some([type |-> "binary", data |-> Val(result'[c].value)])
       /\ (Responds(c) /\ IsFrameMsg(message[c]))
          => IF result[c].value = None
               THEN pc'[c] = "receive" /\ out'[c] = out[c]
               ELSE \/ /\ pc'[c] = "receive"
                       /\ out'[c] = Append(out[c],
                            [seq |-> nrecv[c],
                             reply |-> [type |-> "binary",
                                        data |-> Val(result[c].value)]])
                    \/ pc'[c] = "closed"]_vars

\* C8 witness: a frame that did not decode left nothing, the frame after it
\* came back as the one binary message written.
C8_Witness ==
  \E c \in Conns :
    /\ pc[c] = "receive" /\ ops[c] = <<"undecodable", "result">>
    /\ Len(out[c]) = 1 /\ out[c][1].seq = 2
    /\ out[c][1].reply.type = "binary"

\* C9: a text message that parses: stats is answered by one stats reply
\* with the fields get_stats gives for the session, ping by one pong, and
\* any other or missing command by nothing.
C9_TextCommands ==
  [][\A c \in Conns :
       /\ (Serves(c) /\ IsText(message'[c]) /\ message'[c].text # "{oops")
          => CASE message'[c].text = "{\"command\":\"stats\"}" ->
                    /\ pc'[c] = "respond"
                    /\ result'[c].reply =
                         Some(IF Registered(sid[c])
                                THEN [type |-> "stats",
                                      frames_processed |->
                                        heap[sessions[sid[c]]].frames_processed,
                                      fps |-> heap[sessions[sid[c]]].fps,
                                      has_target_face |->
                                        heap[sessions[sid[c]]].target_face # None]
                                ELSE [type |-> "stats"])
               [] message'[c].text = "{\"command\":\"ping\"}" ->
                    /\ pc'[c] = "respond"
                    /\ result'[c].reply = Some([type |-> "pong"])
               [] OTHER -> result'[c].reply = None
       /\ (Responds(c) /\ IsText(message[c]))
          => IF result[c].reply = None
               THEN pc'[c] = "receive" /\ out'[c] = out[c]
               ELSE \/ /\ pc'[c] = "receive"
                       /\ out'[c] = Append(out[c],
                            [seq |-> nrecv[c], reply |-> Val(result[c].reply)])
                    \/ pc'[c] = "closed"]_vars

\* C9 witness: after a reference face was set, the stats command was
\* answered with the snapshot of the session.
C9_Witness ==
  \E c \in Conns :
    /\ pc[c] = "receive" /\ ops[c] = <<"set_target_face", "stats">>
    /\ Len(out[c]) = 2
    /\ out[c][2] = [seq |-> 2,
                    reply |-> [type |-> "stats", frames_processed |-> 0,
                               fps |-> 0, has_target_face |-> TRUE]]

\* C10: on a connection the replies are written in the order of their
\* messages: every reply belongs to a message already received, the reply to
\* a message is written before the next message is taken up, and no message
\* has two replies.
C10_ReplyOrder ==
  \A c \in Conns :
    \A i \in 1..Len(out[c]) :
      /\ out[c][i].seq \in 1..nrecv[c]
      /\ pc[c] # "receive" => out[c][i].seq < nrecv[c]
      /\ i > 1 => out[c][i - 1].seq < out[c][i].seq

\* C10 witness: a frame and a ping were answered, the frame first.
C10_Witness ==
  \E c \in Conns :
    /\ Len(out[c]) = 2 /\ out[c][1].seq = 1 /\ out[c][2].seq = 2
    /\ out[c][1].reply.type = "binary" /\ out[c][2].reply.type = "pong"

\* Binary messages the handler of c has served since it connected.
BinaryOps == {"set_target_face", "no_session", "skipped", "undecodable",
              "result", "error"}
NoBinaryYet(c) == \A i \in 1..Len(ops[c]) : ops[c][i] \notin BinaryOps
StatsText == "{\"command\":\"stats\"}"

\* C11 (as claimed): a stats command served on a connection that has sent
\* no binary message yet (neither a frame nor a reference face) is answered
\* with frames_processed = 0 and has_target_face = false.
C11_FreshStats ==
  [][\A c \in Conns :
       (Serves(c) /\ message'[c] = Txt(StatsText) /\ NoBinaryYet(c))
       => \E f \in 0..TicksPerSecond :
            result'[c].reply = Some([type |-> "stats", frames_processed |-> 0,
                                     fps |-> f, has_target_face |-> FALSE])]_vars

\* The first message on the connection of c was a reference face and was
\* answered with success true.
FaceAccepted(c) ==
  /\ Len(ops[c]) >= 1 /\ ops[c][1] = "set_target_face"
  /\ Len(out[c]) >= 1 /\ out[c][1] = [seq |-> 1, reply |-> FaceSetReply(TRUE)]
ShowsFace(data) == imdecode(data) # None /\ Val(imdecode(data)).face \in Faces

\* C12 (as claimed): on a newly connected session, FACE + a decodable face
\* image is answered with face_set success true, the decodable frame that
\* follows it with one binary reply, and the stats command after that with
\* frames_processed = 1 and has_target_face = true.
C12_Scenario ==
  [][\A c \in Conns :
       /\ (Serves(c) /\ nrecv[c] = 0 /\ IsFaceMsg(message'[c])
             /\ ShowsFace(message'[c].bytes.data))
          => result'[c].reply = Some(FaceSetReply(TRUE))
       /\ (Serves(c) /\ FaceAccepted(c) /\ nrecv[c] = 1 /\ IsFrameMsg(message'[c])
             /\ imdecode(message'[c].bytes.data) # None)
          => pc'[c] = "process_frame"
       /\ (Finishes(c) /\ FaceAccepted(c) /\ nrecv[c] = 2)
          => /\ result'[c].op = "result"
             /\ Val(result'[c].reply).type = "binary"
       /\ (Serves(c) /\ FaceAccepted(c) /\ ops[c] = <<"set_target_face", "result">>
             /\ Len(out[c]) = 2 /\ message'[c] = Txt(StatsText))
          => \E f \in 0..TicksPerSecond :
               result'[c].reply = Some([type |-> "stats", frames_processed |-> 1,
                                        fps |-> f, has_target_face |-> TRUE])]_vars

\* The handler of c leaves its loop, by whatever way.
Leaves(c) == pc[c] \notin {"closed", "failed"} /\ pc'[c] \in {"closed", "failed"}
\* Every identifier a session can be stored under.
SessionIds == ClientIds \cup {UuidNames[i] : i \in 1..Len(UuidNames)}
ListedIds(response) == {e.session_id : e \in response.sessions}

\* C13: removing an identifier from the registry: an absent one leaves the
\* registry as it is, a second removal changes nothing after the first, and
\* a listing of the registry after the removal does not show the
\* identifier.  A handler that leaves removes its identifier in this way
\* and ends, also when another handler has removed that identifier before.
C13_RemovalIdempotent ==
  [][/\ \A s \in SessionIds :
          LET once == disconnect(sessions, s) IN
          /\ s \notin DOMAIN sessions => once = sessions
          /\ disconnect(once, s) = once
          /\ s \notin ListedIds(list_stream_sessions(once))
          /\ list_stream_sessions(once).active_sessions
               = Cardinality(DOMAIN sessions \ {s})
     /\ \A c \in Conns :
          Leaves(c) => /\ sessions' = disconnect(sessions, sid[c])
                       /\ sid[c] \notin DOMAIN sessions'
                       /\ sid[c] \notin DOMAIN sessions => sessions' = sessions]_vars

\* C13 witness: the identifier of a running handler has already been removed
\* by another handler that shared it, the listing taken since does not show
\* it, and the running handler is still to remove it a second time.
C13_Witness ==
  \E c \in Conns :
    /\ pc[c] = "receive" /\ sid[c] = "s1" /\ "s1" \notin DOMAIN sessions
    /\ listing = Some([active_sessions |-> 0, sessions |-> {}])

\* A connection is accepted for c and its handler starts.
Connects(c) == pc[c] \in {"closed", "failed"} /\ pc'[c] = "receive"

\* C14 (as claimed): no session is created under an identifier that is in
\* the registry, and the session stored under it stays the one it was, with
\* its connection, reference face and counters.
C14_CreateFailsOnDuplicate ==
  [][\A c \in Conns :
       Connects(c)
       => /\ sid'[c] \notin DOMAIN sessions
          /\ \A s \in DOMAIN sessions :
               /\ s \in DOMAIN sessions' /\ sessions'[s] = sessions[s]
               /\ heap'[sessions[s]] = heap[sessions[s]]]_vars

\* The registered sessions that were created for the connection of c.
SessionsOf(c, reg, h) == {s \in DOMAIN reg : h[reg[s]].websocket = c}
\* The handler of c receives the disconnect notification.
DisconnectNotified(c) == pc[c] = "receive" /\ Leaves(c) /\ nmsgs' = nmsgs

\* C15: when the loop of a handler has ended, by the disconnect
\* notification, by a send that found the peer gone or by any other
\* exception, the session created for its connection is not in the
\* registry; the disconnect notification ends the loop without raising.
C15_NoSessionOutlivesConnection ==
  [][\A c \in Conns :
       /\ pc'[c] \in {"closed", "failed"} => SessionsOf(c, sessions', heap') = {}
       /\ DisconnectNotified(c) => pc'[c] = "closed"]_vars

\* C15 witness: a handler was ended by an exception while another
\* connection has its session in the registry, and that is the only one.
C15_Witness ==
  \E c, d \in Conns :
    /\ pc[c] = "failed" /\ pc[d] = "receive"
    /\ DOMAIN sessions = {sid[d]} /\ SessionsOf(d, sessions, heap) = {sid[d]}
    /\ sid[d] = "u1"

StatsFields == {"frames_processed", "fps", "has_target_face"}

\* C16 (as claimed): a stats command on a running handler is always answered
\* with a reply that carries frames_processed, fps and has_target_face, and
\* serving it changes neither a session nor the registry.
C16_StatsAlwaysFull ==
  [][\A c \in Conns :
       (Serves(c) /\ message'[c] = Txt(StatsText))
       => /\ pc'[c] = "respond"
          /\ result'[c].reply # None
          /\ DOMAIN Val(result'[c].reply) = {"type"} \cup StatsFields
          /\ sessions' = sessions /\ heap' = heap]_vars

\* frames_processed as get_stats reports it for an identifier
Reported(reg, h, s) == h[reg[s]].frames_processed

\* C17 (as claimed): for an identifier that stays registered, the reported
\* frames_processed never goes down; it goes up only in a step that ends a
\* process_frame with a result, and then by one: a frame that was dropped,
\* did not decode or failed leaves it as it was.
C17_FramesMonotonic ==
  [][\A s \in DOMAIN sessions \cap DOMAIN sessions' :
       /\ Reported(sessions', heap', s) >= Reported(sessions, heap, s)
       /\ Reported(sessions', heap', s) # Reported(sessions, heap, s)
          => /\ Reported(sessions', heap', s) = Reported(sessions, heap, s) + 1
             /\ \E c \in Conns : Finishes(c) /\ result'[c].op = "result"]_vars

\* The administrative query is answered in this step.
Lists == listing' # None

\* C18: the response of the listing is the registry of the instant it is
\* produced at, whatever the handlers did before and do after:
\* active_sessions is the number of entries, the entries are the registered
\* identifiers, each with the three stats fields of its session as they are
\* at that instant, and producing it changes no session and no registry
\* entry.
C18_ListingSnapshot ==
  [][Lists =>
       LET r == Val(listing') IN
       /\ r.active_sessions = Cardinality(r.sessions)
       /\ ListedIds(r) = DOMAIN sessions
       /\ \A e \in r.sessions :
            /\ DOMAIN e.stats = StatsFields
            /\ e.stats.frames_processed = heap[sessions[e.session_id]].frames_processed
            /\ e.stats.fps = heap[sessions[e.session_id]].fps
            /\ e.stats.has_target_face
                 = (heap[sessions[e.session_id]].target_face # None)
       /\ UNCHANGED <<sessions, heap, pc, sid, out>>]_vars

\* C18 witness: a listing taken after one of two connections has gone shows
\* the one session that is left, with the reference face it was given.
C18_Witness ==
  /\ listing # None
  /\ Len(heap) = 2
  /\ Val(listing).active_sessions = 1
  /\ \E e \in Val(listing).sessions : e.stats.has_target_face

\* set_target_face runs for the handler of c in this step and finds a
\* session to work on.
SetsFace(c) == Serves(c) /\ IsFaceMsg(message'[c]) /\ Registered(sid[c])

HandlerSteps(c) == pc[c] \notin {"closed", "failed"} /\ pc'[c] # pc[c]

\* C20 (as claimed): a step of the handler of one connection leaves the
\* registered session of every other connection as it is: its registry
\* entry, reference face, busy flag and counters.
C20_SessionsIsolated ==
  [][\A c, d \in Conns :
       (c # d /\ HandlerSteps(c))
       => \A s \in SessionsOf(d, sessions, heap) :
            /\ s \in DOMAIN sessions' /\ sessions'[s] = sessions[s]
            /\ heap'[sessions[s]] = heap[sessions[s]]]_vars

\* What a client has established under an identifier: the reference face
\* and the frame count of the session stored under it.
Established(reg, h, s) ==
  [target_face |-> h[reg[s]].target_face,
   frames_processed |-> h[reg[s]].frames_processed]

\* C21 (as claimed): what was established under a session identifier stays
\* in effect under it: the teardown of a connection keeps it, and a client
\* that connects with the identifier finds it.
C21_SessionPersists ==
  [][\A c \in Conns :
       /\ (Leaves(c) /\ Registered(sid[c]))
          => /\ sid[c] \in DOMAIN sessions'
             /\ Established(sessions', heap', sid[c])
                  = Established(sessions, heap, sid[c])
       /\ (Connects(c) /\ sid'[c] \in DOMAIN sessions)
          => Established(sessions', heap', sid'[c])
               = Established(sessions, heap, sid'[c])]_vars

Descriptor(target_face) ==
  IF target_face = None \/ DetectFaces(Val(target_face)) = <<>> THEN None
  ELSE Some(DetectFaces(Val(target_face))[1])
\* The picture in the frame a process_frame returned.
Picture(buffer) == Val(Val(buffer).img)

\* C24 (as claimed): a frame that process_frame returns with a face
\* substituted shows the face of the reference image the session holds,
\* which is the one most recently set with success; the descriptor a session
\* keeps is never that of an earlier reference.
C24_LatestReferenceUsed ==
  [][\A c \in Conns :
       /\ (Finishes(c) /\ result'[c].op = "result"
             /\ Picture(result'[c].value).swapped)
          => Some(Picture(result'[c].value).face)
               = Descriptor(heap[held[c].session].target_face)
       /\ \A o \in DOMAIN heap :
            heap[o].target_embedding # None
            => heap[o].target_embedding = Descriptor(heap[o].target_face)]_vars

\* No substitution is applied to the frame: no reference, model not
\* available, the model call raising, no face in the reference, no face in
\* the frame.
NotSubstituted(session, frame, raises) ==
  \/ session.target_face = None
  \/ ~fa_loaded \/ ~sw_loaded
  \/ raises
  \/ TargetEmbedding(session) = None
  \/ DetectFaces(frame) = <<>>
\* process_frame ends for c in this step, with these choices of the host.
FinishesWith(c, raises, now, e) == pc[c] = "process_frame" /\ FinishFrame(c, raises, now, e)

\* C25 (as claimed): when no substitution is applied to a frame, the
\* attempt ends with a result, and the result is the encoding of the decoded
\* input frame, unchanged.
C25_NoSubstitutionPassthrough ==
  [][\A c \in Conns, raises \in BOOLEAN, now \in Readings, e \in HostEnvs :
       (FinishesWith(c, raises, now, e)
          /\ NotSubstituted(heap[held[c].session], Val(held[c].frame), raises))
       => /\ result'[c].op = "result"
          /\ result'[c].value = Some(imencode(Val(held[c].frame)))]_vars

\* The binary frame replies written on the connection of c.
FrameReplies(c) == {i \in 1..Len(out[c]) : out[c][i].reply.type = "binary"}

\* C26 (as claimed): whenever a handler waits for its next message, the
\* binary frame replies written on its connection are as many as the
\* frames_processed of its session.
C26_RepliesMatchCounter ==
  \A c \in Conns :
    (pc[c] = "receive" /\ Registered(sid[c]))
    => Cardinality(FrameReplies(c)) = heap[sessions[sid[c]]].frames_processed

\* C27 (as claimed): a handler whose loop is running has an entry in the
\* registry under its session identifier, and the entry is the session that
\* holds its own websocket.
C27_RunningHasOwnEntry ==
  \A c \in Conns :
    pc[c] \notin {"closed", "failed"}
    => /\ Registered(sid[c])
       /\ heap[sessions[sid[c]]].websocket = c

\* ---- jobs

\* the step is a start_processing request for job id j
StartsProcessing(j) == StartProcessing(j)

\* the answer of the step to a start_processing request for j has this code
Answered(j, code) == http' = Some(Response("start_processing", Some(j), code))

\* C22: a start_processing request for an unknown job id is answered with
\* 404 and one for a job whose status is not UPLOADED with 400; in both
\* cases no background task is scheduled and no job record changes; and a
\* step that schedules a task schedules it for an existing job whose status
\* is UPLOADED.
C22_StartOnlyUploaded ==
  [][\A j \in RequestJobIds :
       StartsProcessing(j) =>
         /\ j \notin DOMAIN jobs =>
              Answered(j, 404) /\ tasks' = tasks /\ jobs' = jobs
         /\ (j \in DOMAIN jobs /\ jobs[j].status # "uploaded") =>
              Answered(j, 400) /\ tasks' = tasks /\ jobs' = jobs
         /\ tasks' # tasks =>
              /\ j \in DOMAIN jobs /\ jobs[j].status = "uploaded"
              /\ tasks' = Append(tasks, [job |-> j, at |-> "scheduled", step |-> 0])]_vars

\* a request for a job that has been processed to the end was turned down
\* with 400: the job is COMPLETED, its one task is done, no task was added.
C22_Witness ==
  \E j \in DOMAIN jobs :
    /\ http = Some(Response("start_processing", Some(j), 400))
    /\ jobs[j].status = "completed"
    /\ Len(tasks) = 1 /\ tasks[1].at = "done"

\* C28: for any job at most one background task is ever scheduled: of two
\* start_processing requests for the same job at most one is accepted.
C28_OneTaskPerJob ==
  \A t1, t2 \in DOMAIN tasks : tasks[t1].job = tasks[t2].job => t1 = t2

\* the place of a status on the way UPLOADING, UPLOADED, PROCESSING, then
\* COMPLETED or FAILED
Rank(status) ==
  CASE status = "uploading" -> 1
    [] status = "uploaded" -> 2
    [] status = "processing" -> 3
    [] OTHER -> 4
Terminal(status) == status \in {"completed", "failed"}
\* progress as a number, nothing reported yet counting as 0
ProgressOf(job) == IF job.progress = None THEN 0 ELSE Val(job.progress)

\* C29: in every step a job's status stays or moves forward along
\* UPLOADING, UPLOADED, PROCESSING, COMPLETED or FAILED, the status of a
\* COMPLETED or FAILED job stays as it is, and the job's progress does not
\* decrease.
C29_StatusForward ==
  [][\A j \in DOMAIN jobs :
       /\ Rank(jobs'[j].status) >= Rank(jobs[j].status)
       /\ Terminal(jobs[j].status) => jobs'[j].status = jobs[j].status
       /\ ProgressOf(jobs'[j]) >= ProgressOf(jobs[j])]_vars

\* C30: a job in status UPLOADING has its upload_video call still running:
\* once the call has returned or raised the job is UPLOADED or FAILED, and
\* a 413 answer is for a job that is FAILED with "File too large".
C30_UploadSettlesJob ==
  /\ \A j \in DOMAIN jobs : jobs[j].status = "uploading" => j \in DOMAIN uploads
  /\ \A j \in DOMAIN jobs :
       http = Some(Response("upload_video", Some(j), 413)) =>
         jobs[j].status = "failed" /\ jobs[j].error = Some("File too large")

====
